---- MODULE Spec2Model ----
(***************************************************************************)
(* Generalized Rock Paper Scissors (grps.py): the GRPS object, its         *)
(* constructors, its two validated setters, the edge enumeration, the      *)
(* outcome rule and the three play entry points.                           *)
(*                                                                         *)
(* Python values are modelled as follows.                                  *)
(*   Optional[x]     None is <<>>, a set value x is <<x>>                  *)
(*   tuple / list    a sequence                                            *)
(*   dict            a function whose DOMAIN is the key set                *)
(*   int (self.ne)   an arbitrary precision natural: the sequence of its   *)
(*                   base 2^15 digits, least significant first, <<>> = 0   *)
(*   a raised error  the name of the exception in the call's outcome       *)
(***************************************************************************)
EXTENDS Integers, Sequences, FiniteSets, TLC

VARIABLES n, ne, _edge_verbs, _node_names, ret

vars == <<n, ne, _edge_verbs, _node_names, ret>>

\* ------------------------------------------------------------- bounds
\* sizes of the small games: N = 2k+1 for k in 1..MaxK
MaxK == 3
\* large games: N = 2^27 + 1 + 2m for m in 0..MaxLarge
MaxLarge == 7

MaxN == 2 * MaxK + 1
LargeSizes == {2^27 + 1 + 2 * m : m \in 0..MaxLarge}

\* ------------------------------------------------------ Python values
None == <<>>
Some(x) == <<x>>
Range(s) == {s[k] : k \in DOMAIN s}
Min2(a, b) == IF a <= b THEN a ELSE b
Max2(a, b) == IF a >= b THEN a ELSE b

\* a move argument carries its runtime type, as isinstance sees it
IntMove(i) == [t |-> "int", v |-> i]
StrMove(s) == [t |-> "str", v |-> s]

\* what a call does: the value it returns or the exception it raises,
\* and the line it prints
Return(value) == [kind |-> "ok", value |-> <<value>>, out |-> <<>>]
Raise(exc) == [kind |-> exc, value |-> <<>>, out |-> <<>>]
Printed(msg) == [kind |-> "ok", value |-> <<None>>, out |-> msg]

\* ------------------------------------------- arbitrary precision ints
Base == 2^15
\* a double's significand
MantissaBits == 53

RECURSIVE BigOfInt(_)
BigOfInt(k) == IF k = 0 THEN <<>> ELSE <<k % Base>> \o BigOfInt(k \div Base)

RECURSIVE Normalize(_)
Normalize(d) ==
    IF d = <<>> THEN <<>>
    ELSE IF d[Len(d)] = 0 THEN Normalize(SubSeq(d, 1, Len(d) - 1))
    ELSE d

\* a * b for 0 <= a, b < 2^30, exact
IntMul(a, b) ==
    LET a0 == a % Base
        a1 == a \div Base
        b0 == b % Base
        b1 == b \div Base
        c0 == a0 * b0
        c1 == a1 * b0 + a0 * b1 + (c0 \div Base)
        c2 == a1 * b1 + (c1 \div Base)
    IN  Normalize(<<c0 % Base, c1 % Base, c2 % Base, c2 \div Base>>)

RECURSIVE BitLen(_)
BitLen(k) == IF k = 0 THEN 0 ELSE 1 + BitLen(k \div 2)

BigBitLen(d) == IF d = <<>> THEN 0 ELSE 15 * (Len(d) - 1) + BitLen(d[Len(d)])

\* d + k for a digit sequence d and 0 <= k < Base
RECURSIVE BigAddSmall(_, _)
BigAddSmall(d, k) ==
    IF k = 0 THEN d
    ELSE IF d = <<>> THEN <<k>>
    ELSE <<(d[1] + k) % Base>> \o BigAddSmall(Tail(d), (d[1] + k) \div Base)

\* floor(d / 2)
BigHalf(d) ==
    Normalize([k \in 1..Len(d) |->
        (d[k] \div 2) + (IF k < Len(d) THEN (d[k + 1] % 2) * (Base \div 2) ELSE 0)])

\* the integer nearest to d that a double holds: d itself up to 53 bits,
\* beyond that d rounded to 53 significant bits, a tie going to the even
\* significand (here for d of at most 53 + 14 bits)
RoundToDouble(d) ==
    IF BigBitLen(d) <= MantissaBits THEN d
    ELSE LET ulp == 2^(BigBitLen(d) - MantissaBits)
             r == d[1] % ulp
             down == [d EXCEPT ![1] = d[1] - r]
             up == BigAddSmall(down, ulp)
         IN  IF 2 * r < ulp THEN down
             ELSE IF 2 * r > ulp THEN up
             ELSE IF (d[1] \div ulp) % 2 = 0 THEN down
             ELSE up

\* int(a / 2) for a Python int a >= 0: a / 2 is the double nearest to the
\* quotient, which is RoundToDouble(a) scaled by a power of two, and int
\* truncates it
IntOfTrueDiv2(a) == BigHalf(RoundToDouble(a))

\* --------------------------------------------------------- the game
\* GRPS.__init__: the fields of a new game; the two asserts on n
\* are the precondition of every constructor call below
__init__(size) ==
    [n |-> size,
     ne |-> IntOfTrueDiv2(IntMul(size, size - 1)),
     _edge_verbs |-> None,
     _node_names |-> None]

\* the sizes __init__ accepts: its two asserts
ValidSize(size) == size > 2 /\ size % 2 = 1
Sizes == {size \in 0..MaxN : ValidSize(size)}

\* the game the state variables hold
Self == [n |-> n, ne |-> ne, _edge_verbs |-> _edge_verbs, _node_names |-> _node_names]

TIE == -1

\* the rule with the left index winning among indices of equal parity
resolve_outcome_left(self_n, n0, n1) ==
    IF ~(0 <= n0 /\ n0 <= self_n - 1) THEN Raise("AssertionError")
    ELSE IF ~(0 <= n1 /\ n1 <= self_n - 1) THEN Raise("AssertionError")
    ELSE IF n0 = n1 THEN Return(TIE)
    ELSE IF (n0 % 2) = (n1 % 2) THEN Return(n0)
    ELSE Return(Min2(n0, n1))

\* the rule with the left index winning among indices of unequal parity
resolve_outcome_left_mixed(self_n, n0, n1) ==
    IF ~(0 <= n0 /\ n0 <= self_n - 1) THEN Raise("AssertionError")
    ELSE IF ~(0 <= n1 /\ n1 <= self_n - 1) THEN Raise("AssertionError")
    ELSE IF n0 = n1 THEN Return(TIE)
    ELSE IF (n0 % 2) = (n1 % 2) THEN Return(Max2(n0, n1))
    ELSE Return(n0)

\* the rule without its parity test
resolve_outcome_max(self_n, n0, n1) ==
    IF ~(0 <= n0 /\ n0 <= self_n - 1) THEN Raise("AssertionError")
    ELSE IF ~(0 <= n1 /\ n1 <= self_n - 1) THEN Raise("AssertionError")
    ELSE IF n0 = n1 THEN Return(TIE)
    ELSE Return(Max2(n0, n1))

\* the rule with its two branches exchanged
resolve_outcome_swapped(self_n, n0, n1) ==
    IF ~(0 <= n0 /\ n0 <= self_n - 1) THEN Raise("AssertionError")
    ELSE IF ~(0 <= n1 /\ n1 <= self_n - 1) THEN Raise("AssertionError")
    ELSE IF n0 = n1 THEN Return(TIE)
    ELSE IF (n0 % 2) = (n1 % 2) THEN Return(Min2(n0, n1))
    ELSE Return(Max2(n0, n1))

\* the cyclic rule: an index beats the (n - 1) / 2 indices that follow it
resolve_outcome_cyclic(self_n, n0, n1) ==
    IF ~(0 <= n0 /\ n0 <= self_n - 1) THEN Raise("AssertionError")
    ELSE IF ~(0 <= n1 /\ n1 <= self_n - 1) THEN Raise("AssertionError")
    ELSE IF n0 = n1 THEN Return(TIE)
    ELSE IF ((n1 - n0) % self_n) <= (self_n - 1) \div 2 THEN Return(n0)
    ELSE Return(n1)

\* GRPS._resolve_outcome: the winning index, or TIE
_resolve_outcome(self_n, n0, n1) ==
    IF ~(0 <= n0 /\ n0 <= self_n - 1) THEN Raise("AssertionError")
    ELSE IF ~(0 <= n1 /\ n1 <= self_n - 1) THEN Raise("AssertionError")
    ELSE IF n0 = n1 THEN Return(TIE)
    ELSE IF (n0 % 2) = (n1 % 2) THEN Return(Max2(n0, n1))
    ELSE Return(Min2(n0, n1))

\* itertools.product(range(n), range(n)): row-major
Product(self_n) == [k \in 1..(self_n * self_n) |-> <<(k - 1) \div self_n, (k - 1) % self_n>>]

\* GRPS.get_edge_indices: the pairs whose first index is the outcome
get_edge_indices(self_n) ==
    LET outcome(elem) == _resolve_outcome(self_n, elem[1], elem[2])
        f(elem) == outcome(elem).value = <<elem[1]>>
    IN  IF \E k \in 1..(self_n * self_n) : outcome(Product(self_n)[k]).kind # "ok"
        THEN Raise("AssertionError")
        ELSE Return(SelectSeq(Product(self_n), f))

\* the setter storing before it validates
node_names_setter_store_first(self, value) ==
    LET stored == [self EXCEPT !._node_names = Some(value)]
    IN  IF Len(value) # self.n THEN [self |-> stored, res |-> Raise("AssertionError")]
        ELSE IF Cardinality(Range(value)) # Len(value) THEN [self |-> stored, res |-> Raise("AssertionError")]
        ELSE [self |-> stored, res |-> Return(None)]

\* node_names setter: validate, then store
node_names_setter(self, value) ==
    IF Len(value) # self.n THEN [self |-> self, res |-> Raise("AssertionError")]
    ELSE IF Cardinality(Range(value)) # Len(value) THEN [self |-> self, res |-> Raise("AssertionError")]
    ELSE [self |-> [self EXCEPT !._node_names = Some(value)], res |-> Return(None)]

\* edge_verbs setter: validate the number of keys, then store
edge_verbs_setter(self, value) ==
    IF BigOfInt(Cardinality(DOMAIN value)) # self.ne THEN [self |-> self, res |-> Raise("AssertionError")]
    ELSE [self |-> [self EXCEPT !._edge_verbs = Some(value)], res |-> Return(None)]

\* GRPS.get_named_edge_indices
get_named_edge_indices(self) ==
    IF self._node_names = None THEN Raise("Exception")
    ELSE LET r == get_edge_indices(self.n)
             idx == r.value[1]
             names == self._node_names[1]
         IN  IF r.kind # "ok" THEN r
             ELSE Return([k \in 1..Len(idx) |->
                     <<idx[k], <<names[idx[k][1] + 1], names[idx[k][2] + 1]>>>>])

\* randint(0, n): one index too many
sample_move_to_n(self_n) == 0..self_n

\* GRPS._sample_move: randint(0, n - 1), both ends included
_sample_move(self_n) == 0..(self_n - 1)

\* GRPS._play_int, s the move drawn when i2 is None
_play_int(self_n, i, i2, s) ==
    IF ~(0 <= i /\ i < self_n) THEN Raise("AssertionError")
    ELSE IF i2 # None /\ ~(0 <= i2[1] /\ i2[1] < self_n) THEN Raise("AssertionError")
    ELSE LET m == IF i2 = None THEN s ELSE i2[1]
             outcome == _resolve_outcome(self_n, i, m)
         IN  IF outcome.kind # "ok" THEN outcome
             ELSE Return(<<outcome.value[1], <<i, m>>>>)

\* list.index / tuple.index of a member
IndexOf(names, x) == (CHOOSE k \in 1..Len(names) : names[k] = x /\ \A m \in 1..(k - 1) : names[m] # x) - 1

\* GRPS._play_str; node_names None makes the membership test a TypeError
_play_str(self, node, node2, s) ==
    IF self._node_names = None THEN Raise("TypeError")
    ELSE LET names == self._node_names[1]
         IN  IF node \notin Range(names) THEN Raise("AssertionError")
             ELSE IF node2 # None
                  THEN IF node2[1] \notin Range(names) THEN Raise("AssertionError")
                       ELSE _play_int(self.n, IndexOf(names, node), Some(IndexOf(names, node2[1])), s)
                  ELSE _play_int(self.n, IndexOf(names, node), None, s)

\* self.edge_verbs[edge]: None has no items, a missing key is a KeyError
Verb(self, edge) ==
    IF self._edge_verbs = None THEN Raise("TypeError")
    ELSE IF edge \in DOMAIN self._edge_verbs[1] THEN Return(self._edge_verbs[1][edge])
    ELSE Raise("KeyError")

\* GRPS.play from its call of _play_str on: the message of a named match
play_message(self, move, move2, s) ==
    LET r == _play_str(self, move.v, IF move2 = None THEN None ELSE Some(move2[1].v), s)
        result == r.value[1][1]
        player_idx == r.value[1][2][1]
        pc_idx == r.value[1][2][2]
        player == self._node_names[1][player_idx + 1]
        pc == self._node_names[1][pc_idx + 1]
        won == Verb(self, <<player_idx, pc_idx>>)
        lost == Verb(self, <<pc_idx, player_idx>>)
    IN  IF r.kind # "ok" THEN r
        ELSE IF result = TIE THEN Printed(<<pc, "vs.", pc, "tie!">>)
        ELSE IF result = player_idx
        THEN IF won.kind # "ok" THEN won
             ELSE Printed(<<player, won.value[1], pc,
                            IF move2 = None THEN "you win!" ELSE "player1 wins!">>)
        ELSE IF lost.kind # "ok" THEN lost
             ELSE Printed(<<pc, lost.value[1], player,
                            IF move2 = None THEN "you lose!" ELSE "player2 wins!">>)

\* play without its check that the verbs are set
play_verbs_unchecked(self, move, move2, s) ==
    IF move.t = "int"
    THEN IF ~(move2 = None \/ move2[1].t = "int") THEN Raise("AssertionError")
         ELSE _play_int(self.n, move.v, IF move2 = None THEN None ELSE Some(move2[1].v), s)
    ELSE IF ~(move2 = None \/ move2[1].t = "str") THEN Raise("AssertionError")
    ELSE IF self._node_names = None THEN Raise("AssertionError")
    ELSE play_message(self, move, move2, s)

\* GRPS.play; move and move2 carry their types, move2 may be None
play(self, move, move2, s) ==
    IF move.t = "int"
    THEN IF ~(move2 = None \/ move2[1].t = "int") THEN Raise("AssertionError")
         ELSE _play_int(self.n, move.v, IF move2 = None THEN None ELSE Some(move2[1].v), s)
    ELSE IF ~(move2 = None \/ move2[1].t = "str") THEN Raise("AssertionError")
    ELSE IF self._node_names = None THEN Raise("AssertionError")
    ELSE IF self._edge_verbs = None THEN Raise("AssertionError")
    ELSE play_message(self, move, move2, s)

\* GRPS.edge_verb_builder, every input() answered with verb
edge_verb_builder(self, verb) ==
    IF self._node_names = None THEN [self |-> self, res |-> Raise("Exception")]
    ELSE LET r == get_named_edge_indices(self)
             dct == [e \in {r.value[1][k][1] : k \in 1..Len(r.value[1])} |-> verb]
         IN  IF r.kind # "ok" THEN [self |-> self, res |-> r]
             ELSE edge_verbs_setter(self, dct)

\* ----------------------------------------------------- the built-in games
ClassicNames == <<"scissors", "paper", "rock">>
ClassicVerbs == (<<0, 1>> :> "cuts") @@ (<<1, 2>> :> "wraps") @@ (<<2, 0>> :> "smashes")

classic ==
    LET game == __init__(3)
        named == node_names_setter(game, ClassicNames).self
    IN  edge_verbs_setter(named, ClassicVerbs).self

SpockNames == <<"scissors", "paper", "rock", "lizard", "spock">>
SpockVerbs ==
    ((<<0, 3>> :> "cuts") @@ (<<1, 4>> :> "proves") @@ (<<2, 3>> :> "smashes")
     @@ (<<3, 1>> :> "eats") @@ (<<3, 4>> :> "poisons") @@ (<<4, 0>> :> "breaks")
     @@ (<<4, 2>> :> "vaporizes"))
    @@ classic._edge_verbs[1]

spock_version ==
    LET game == __init__(5)
        named == node_names_setter(game, SpockNames).self
    IN  edge_verbs_setter(named, SpockVerbs).self

OfficeNames == <<"Jim", "Dwight", "Michael", "Pam", "Kevin", "Andy", "Angela">>
OfficeVerbs ==
    (<<0, 1>> :> "fools") @@ (<<0, 3>> :> "marries") @@ (<<0, 5>> :> "triggers")
    @@ (<<1, 2>> :> "annoys") @@ (<<1, 4>> :> "insults") @@ (<<1, 6>> :> "courts")
    @@ (<<2, 0>> :> "ruins sale for") @@ (<<2, 3>> :> "sexually harasses")
    @@ (<<2, 5>> :> "ignores") @@ (<<3, 1>> :> "becomes friends with")
    @@ (<<3, 4>> :> "is disgusted by") @@ (<<3, 6>> :> "retaliates")
    @@ (<<4, 0>> :> "annoys") @@ (<<4, 2>> :> "wants cake from")
    @@ (<<4, 5>> :> "teams up with") @@ (<<5, 1>> :> "steals Angels from")
    @@ (<<5, 3>> :> "snobs") @@ (<<5, 6>> :> "sings to") @@ (<<6, 0>> :> "insults")
    @@ (<<6, 2>> :> "is mad at") @@ (<<6, 4>> :> "is disgusted by")

the_office_version ==
    LET game == __init__(7)
        named == node_names_setter(game, OfficeNames).self
    IN  edge_verbs_setter(named, OfficeVerbs).self

\* ------------------------------------------------- the callers' inputs
NamePool == SpockNames \o OfficeNames
\* L names of the pool, starting after its first r
Names(L, r) == [k \in 1..L |-> NamePool[((k + r - 1) % Len(NamePool)) + 1]]
\* names of every length up to one more than the largest game: two
\* orders without a repeated name, and one that repeats its first name
NameInputs ==
    {Names(L, r) : L \in 2..(MaxN + 1), r \in {0, Len(SpockNames)}}
    \cup {[Names(L, 0) EXCEPT ![L] = Names(L, 0)[1]] : L \in 2..(MaxN + 1)}

VerbWords == {"beats", "counters"}
Edges(size) == Range(get_edge_indices(size).value[1])
\* verb maps over: the edges of a game, with either word; the edges
\* reversed; the edges with one replaced by a pair that is no edge; one
\* edge fewer; one key more
VerbKeySets ==
    UNION {{Edges(size),
            {<<e[2], e[1]>> : e \in Edges(size)},
            (Edges(size) \ {<<0, 1>>}) \cup {<<0, 0>>},
            Edges(size) \ {<<0, 1>>},
            Edges(size) \cup {<<0, 0>>}} : size \in Sizes}
VerbInputs ==
    {[e \in Edges(size) |-> w] : size \in Sizes, w \in VerbWords}
    \cup {[e \in keys |-> "beats"] : keys \in VerbKeySets}

IndexInputs == (-1)..(MaxN + 1)
MoveInputs == {IntMove(i) : i \in IndexInputs} \cup {StrMove(x) : x \in Range(NamePool)}
\* indices at both ends of a large game
LargeMoveInputs == {IntMove(i) : i \in {-1, 0, 1, 2, n - 3, n - 2, n - 1, n}}

\* ------------------------------------------------------ the state machine
Store(self) ==
    /\ n' = self.n
    /\ ne' = self.ne
    /\ _edge_verbs' = self._edge_verbs
    /\ _node_names' = self._node_names

\* a call and what it did
Call(op, args, res) == [op |-> op, args |-> args, kind |-> res.kind, value |-> res.value, out |-> res.out]

\* between calls the caller holds no outcome
Idle == Call("idle", <<>>, Return(None))

Games == {__init__(size) : size \in Sizes} \cup {classic, spock_version, the_office_version}

Init ==
    \E game \in Games :
        /\ n = game.n
        /\ ne = game.ne
        /\ _edge_verbs = game._edge_verbs
        /\ _node_names = game._node_names
        /\ ret = Call("__init__", <<>>, Return(None))

InitLarge ==
    \E size \in LargeSizes :
        /\ n = size
        /\ ne = __init__(size).ne
        /\ _edge_verbs = None
        /\ _node_names = None
        /\ ret = Call("__init__", <<>>, Return(None))

SetNames ==
    /\ ret.op = "idle"
    /\ \E value \in NameInputs :
        LET r == node_names_setter(Self, value)
        IN  Store(r.self) /\ ret' = Call("node_names", <<value>>, r.res)

SetVerbs ==
    /\ ret.op = "idle"
    /\ \E value \in VerbInputs :
        LET r == edge_verbs_setter(Self, value)
        IN  Store(r.self) /\ ret' = Call("edge_verbs", <<value>>, r.res)

EdgeVerbBuilder ==
    /\ ret.op = "idle"
    /\ \E verb \in VerbWords :
        LET r == edge_verb_builder(Self, verb)
        IN  Store(r.self) /\ ret' = Call("edge_verb_builder", <<verb>>, r.res)

GetEdgeIndices ==
    /\ ret.op = "idle"
    /\ ret' = Call("get_edge_indices", <<>>, get_edge_indices(n))
    /\ UNCHANGED <<n, ne, _edge_verbs, _node_names>>

GetNamedEdgeIndices ==
    /\ ret.op = "idle"
    /\ ret' = Call("get_named_edge_indices", <<>>, get_named_edge_indices(Self))
    /\ UNCHANGED <<n, ne, _edge_verbs, _node_names>>

\* play(move, move2)
Play2(moves) ==
    /\ ret.op = "idle"
    /\ \E move \in moves, move2 \in moves :
        /\ ret' = Call("play", <<move, Some(move2)>>, play(Self, move, Some(move2), 0))
        /\ UNCHANGED <<n, ne, _edge_verbs, _node_names>>

\* play(move), the second move drawn by _sample_move
Play1 ==
    /\ ret.op = "idle"
    /\ \E move \in MoveInputs, s \in _sample_move(n) :
        /\ ret' = Call("play", <<move, None>>, play(Self, move, None, s))
        /\ UNCHANGED <<n, ne, _edge_verbs, _node_names>>

\* _play_str(node, node2), as the tests call it
PlayStr2 ==
    /\ ret.op = "idle"
    /\ \E node \in Range(NamePool), node2 \in Range(NamePool) :
        /\ ret' = Call("_play_str", <<node, Some(node2)>>, _play_str(Self, node, Some(node2), 0))
        /\ UNCHANGED <<n, ne, _edge_verbs, _node_names>>

PlayStr1 ==
    /\ ret.op = "idle"
    /\ \E node \in Range(NamePool), s \in _sample_move(n) :
        /\ ret' = Call("_play_str", <<node, None>>, _play_str(Self, node, None, s))
        /\ UNCHANGED <<n, ne, _edge_verbs, _node_names>>

\* the caller is done with the outcome of its last call
Discard ==
    /\ ret.op # "idle"
    /\ ret' = Idle
    /\ UNCHANGED <<n, ne, _edge_verbs, _node_names>>

Next ==
    \/ Discard
    \/ SetNames
    \/ SetVerbs
    \/ EdgeVerbBuilder
    \/ GetEdgeIndices
    \/ GetNamedEdgeIndices
    \/ Play2(MoveInputs)
    \/ Play1
    \/ PlayStr2
    \/ PlayStr1

Spec == Init /\ [][Next]_vars

\* the games too large to enumerate: construction, the setters and play
\* with both moves given
NextLarge ==
    \/ Discard
    \/ SetNames
    \/ SetVerbs
    \/ Play2(LargeMoveInputs)

SpecLarge == InitLarge /\ [][NextLarge]_vars

\* ------------------------------------------------------------ the claims
\* the edges a call of get_edge_indices returned
ReturnedEdges == Range(ret.value[1])
EdgesReturned == ret.op = "get_edge_indices" /\ ret.kind = "ok"

\* C1: of two distinct indices of a game exactly one order is in the list
\* get_edge_indices returns, and no index is paired with itself.
C1_OneDirection ==
    ret.op = "get_edge_indices" =>
        /\ ret.kind = "ok"
        /\ \A i \in 0..(n - 1), j \in 0..(n - 1) :
              /\ i # j => ((<<i, j>> \in ReturnedEdges) # (<<j, i>> \in ReturnedEdges))
              /\ <<i, i>> \notin ReturnedEdges

C1_Witness == EdgesReturned /\ n >= 5 /\ <<4, 2>> \in ReturnedEdges

\* C2 (Property 1): every index is first in (n - 1) / 2 entries of the
\* returned list and second in as many.
C2_Degrees ==
    ret.op = "get_edge_indices" =>
        /\ ret.kind = "ok"
        /\ \A i \in 0..(n - 1) :
              LET out == Cardinality({k \in 1..Len(ret.value[1]) : ret.value[1][k][1] = i})
                  in == Cardinality({k \in 1..Len(ret.value[1]) : ret.value[1][k][2] = i})
              IN  out = in /\ out = (n - 1) \div 2

C2_Witness == EdgesReturned /\ n >= 5 /\ Len(ret.value[1]) > 3

\* C3 (Property 2): the edges of a game of size n are the edges of the
\* game of size n + 2 between indices below n.
C3_Subgraph ==
    ret.op = "get_edge_indices" =>
        /\ ret.kind = "ok"
        /\ ReturnedEdges = {e \in Edges(n + 2) : e[1] < n /\ e[2] < n}

C3_Witness == EdgesReturned /\ n = 5 /\ <<3, 1>> \in ReturnedEdges /\ <<5, 1>> \in Edges(n + 2)

\* C4: the outcome does not depend on the order of the two moves: for the
\* rule itself on every pair of indices of the game, and for a match
\* played by name or by index with both moves given.
C4_Symmetric ==
    /\ \A n0 \in 0..(n - 1), n1 \in 0..(n - 1) :
          _resolve_outcome(n, n0, n1) = _resolve_outcome(n, n1, n0)
    /\ (ret.op = "_play_str" /\ ret.args[2] # None) =>
          LET other == _play_str(Self, ret.args[2][1], Some(ret.args[1]), 0)
          IN  /\ other.kind = ret.kind
              /\ ret.kind = "ok" => other.value[1][1] = ret.value[1][1]
    /\ (ret.op = "play" /\ ret.args[1].t = "int" /\ ret.args[2] # None) =>
          LET other == play(Self, ret.args[2][1], Some(ret.args[1]), 0)
          IN  /\ other.kind = ret.kind
              /\ ret.kind = "ok" => other.value[1][1] = ret.value[1][1]

\* a match by name that the second name wins
C4_Witness ==
    /\ ret.op = "_play_str" /\ ret.kind = "ok" /\ ret.args[2] # None
    /\ ret.value[1][1] # TIE
    /\ ret.value[1][1] = ret.value[1][2][2]

\* C5: the stored edge count is n (n - 1) / 2, in every state, and is the
\* length of the list get_edge_indices returns.
C5_EdgeCount ==
    /\ ne = BigHalf(IntMul(n, n - 1))
    /\ EdgesReturned => BigOfInt(Len(ret.value[1])) = ne

\* the winner of a match, as _play_str returns it and as play prints it
WinnerIs(name) ==
    \/ /\ ret.op = "_play_str"
       /\ ret.kind = "ok"
       /\ ret.value[1][1] # TIE
       /\ _node_names[1][ret.value[1][1] + 1] = name
    \/ /\ ret.op = "play"
       /\ ret.kind = "ok"
       /\ Len(ret.out) = 4
       /\ ret.out[1] = name
       /\ ret.out[4] # "tie!"
IsTie ==
    \/ ret.op = "_play_str" /\ ret.kind = "ok" /\ ret.value[1][1] = TIE
    \/ ret.op = "play" /\ ret.kind = "ok" /\ Len(ret.out) = 4 /\ ret.out[4] = "tie!"
\* the two names of a match by name with both moves given
MatchByName ==
    /\ ret.op \in {"_play_str", "play"}
    /\ ret.args[2] # None
    /\ ret.op = "play" => (ret.args[1].t = "str" /\ ret.args[2][1].t = "str")
Left == IF ret.op = "play" THEN ret.args[1].v ELSE ret.args[1]
Right == IF ret.op = "play" THEN ret.args[2][1].v ELSE ret.args[2][1]

ClassicBeats == {<<"scissors", "paper">>, <<"paper", "rock">>, <<"rock", "scissors">>}
SpockBeats ==
    {<<"scissors", "paper">>, <<"scissors", "lizard">>, <<"paper", "rock">>, <<"paper", "spock">>,
     <<"rock", "scissors">>, <<"rock", "lizard">>, <<"lizard", "paper">>, <<"lizard", "spock">>,
     <<"spock", "rock">>, <<"spock", "scissors">>}

\* C6: in the classic game and in the spock version each match between
\* two of the listed moves is won by the listed winner, whichever of the
\* two is given first, and rock against rock is a tie in the classic game.
C6_Scenarios ==
    /\ (Self = classic /\ MatchByName) =>
          /\ \A p \in ClassicBeats : {Left, Right} = {p[1], p[2]} => WinnerIs(p[1])
          /\ (Left = "rock" /\ Right = "rock") => IsTie
    /\ (Self = spock_version /\ MatchByName) =>
          \A p \in SpockBeats : {Left, Right} = {p[1], p[2]} => WinnerIs(p[1])

\* play("spock", "lizard") in the spock version: the second move wins
C6_Witness ==
    /\ Self = spock_version
    /\ ret.op = "play" /\ ret.args[2] # None
    /\ ret.args[1] = StrMove("spock") /\ ret.args[2][1] = StrMove("lizard")
    /\ ret.out = <<"lizard", "poisons", "spock", "player2 wins!">>

\* C7: the verbs, once set, have edge_count keys, and the keys are the
\* edges get_edge_indices produces for the size of the game.
C7_VerbKeys ==
    _edge_verbs # None =>
        /\ BigOfInt(Cardinality(DOMAIN _edge_verbs[1])) = ne
        /\ DOMAIN _edge_verbs[1] = Edges(n)

\* C8: an assignment of names or of verbs that fails validation raises
\* and leaves names and verbs as they were; one that passes replaces the
\* field assigned and leaves the other.
C8_AtomicUpdates ==
    [][/\ ret'.op = "node_names" =>
             LET value == ret'.args[1]
             IN  IF Len(value) # n \/ Cardinality(Range(value)) # Len(value)
                 THEN ret'.kind = "AssertionError" /\ UNCHANGED <<_node_names, _edge_verbs>>
                 ELSE ret'.kind = "ok" /\ _node_names' = Some(value) /\ UNCHANGED _edge_verbs
       /\ ret'.op = "edge_verbs" =>
             LET value == ret'.args[1]
             IN  IF BigOfInt(Cardinality(DOMAIN value)) # ne
                 THEN ret'.kind = "AssertionError" /\ UNCHANGED <<_node_names, _edge_verbs>>
                 ELSE ret'.kind = "ok" /\ _edge_verbs' = Some(value) /\ UNCHANGED _node_names
      ]_vars

\* names with a repeated entry were refused and the names set before kept
C8_Witness ==
    /\ ret.op = "node_names" /\ ret.kind = "AssertionError"
    /\ Len(ret.args[1]) = n
    /\ _node_names # None /\ _edge_verbs # None

\* C9: a play by index whose moves are in range returns the two moves
\* compared, the second being the one given or, when none is given, an
\* index of the game; the result is the tie value exactly when the two
\* are equal, and otherwise the one of them the rule names.
C9_IndexPlay ==
    (/\ ret.op = "play"
     /\ ret.args[1].t = "int"
     /\ ret.args[1].v \in 0..(n - 1)
     /\ ret.args[2] # None => (ret.args[2][1].t = "int" /\ ret.args[2][1].v \in 0..(n - 1))) =>
        /\ ret.kind = "ok"
        /\ LET outcome == ret.value[1][1]
               a == ret.value[1][2][1]
               b == ret.value[1][2][2]
           IN  /\ a = ret.args[1].v
               /\ ret.args[2] # None => b = ret.args[2][1].v
               /\ b \in 0..(n - 1)
               /\ (outcome = TIE) <=> (a = b)
               /\ a # b => (outcome \in {a, b} /\ Return(outcome) = _resolve_outcome(n, a, b))

\* the move drawn was the player's own
C9_Witness ==
    /\ ret.op = "play" /\ ret.kind = "ok"
    /\ ret.args[1].t = "int" /\ ret.args[2] = None
    /\ ret.value[1] = <<TIE, <<2, 2>>>>

\* what play requires of its moves
IndexPlayRefused(move, move2) ==
    /\ move.t = "int"
    /\ move2 = None \/ move2[1].t = "int"
    /\ \/ move.v \notin 0..(n - 1)
       \/ move2 # None /\ move2[1].v \notin 0..(n - 1)
NamePlayRefused(move, move2) ==
    /\ move.t = "str"
    /\ move2 = None \/ move2[1].t = "str"
    /\ \/ _node_names = None
       \/ _edge_verbs = None
       \/ move.v \notin Range(_node_names[1])
       \/ move2 # None /\ move2[1].v \notin Range(_node_names[1])

\* C10: a play by index with an index out of range, and a play by name
\* with names or verbs unset or with a name that is not configured, raises,
\* returns and prints nothing, and leaves names and verbs as they were.
C10_PlayFails ==
    [][(/\ ret'.op = "play"
        /\ IndexPlayRefused(ret'.args[1], ret'.args[2]) \/ NamePlayRefused(ret'.args[1], ret'.args[2])) =>
            /\ ret'.kind # "ok"
            /\ ret'.value = <<>>
            /\ ret'.out = <<>>
            /\ UNCHANGED <<_node_names, _edge_verbs>>
      ]_vars

\* play(5) on a game of size 3
C10_Witness ==
    /\ n = 3
    /\ ret.op = "play" /\ ret.kind = "AssertionError"
    /\ ret.args = <<IntMove(5), None>>

====
